---- MODULE Spec2Model ----
(***************************************************************************)
(* Model of the subtitle timing estimator (src/app_windows.py).            *)
(*                                                                         *)
(* Strings are sequences of one-character strings; " " is the only         *)
(* whitespace character that occurs.  A number is the rational             *)
(* [n |-> numerator, d |-> denominator] in lowest terms, d > 0.  Python's  *)
(* float operators are modelled as IEEE-754 binary floating point with     *)
(* round-to-nearest-even: the exact result rounded to a significand of     *)
(* FloatBits bits (the code's floats have 53; the model cuts the width).   *)
(***************************************************************************)
EXTENDS Integers, Sequences, FiniteSets, TLC

VARIABLES
    pc,                        \* position of the running call
    fn,                        \* the function the running call entered
    sentences,                 \* synchronize_with_audio: argument
    audio_duration,            \* synchronize_with_audio: argument
    wpm,                       \* words per minute argument
    total_estimated_duration,  \* synchronize_with_audio: local
    compression_ratio,         \* synchronize_with_audio: local
    regime,                    \* branch of the if at line 191
    si,                        \* index of `sentence` in the outer for loop
    bi,                        \* index of `block` in the inner for loop
    current_time,              \* synchronize_with_audio: local
    subtitle_index,            \* synchronize_with_audio: local
    srt_entries,               \* synchronize_with_audio: result list
    text,                      \* argument of a pure function under call; local `text`
    ret,                       \* value returned by the call
    audio_file,                \* entry point: the kind of object given as audio
    text_file,                 \* entry point: the uploaded text file, or NoFile
    text_input,                \* entry point: the typed text, or NoneText
    files,                     \* the temporary files that exist
    created,                   \* the temporary files the invocation created
    temp_input,                \* convert_audio_to_wav: local
    temp_wav_path,             \* entry point: local
    temp_srt_path,             \* entry point: local
    exc,                       \* the exception in flight, or "None"
    result,                    \* the (message, artifact) pair being returned
    propagated,                \* an exception left the entry point
    remove_failed,             \* an os.remove / os.unlink of the invocation failed
    ffmpeg_calls,              \* number of subprocess.run calls of ffmpeg (line 324)
    ffprobe_calls,             \* number of subprocess.run calls of ffprobe (line 95)
    ffmpeg_outcome,            \* how the ffmpeg call ended, "none" before it
    ffprobe_outcome,           \* how the ffprobe call ended, "none" before it
    file_read,                 \* extract_text_from_file was given the uploaded file
    srt_content                \* the SRT text built by the call

callLog == <<ffmpeg_calls, ffprobe_calls, ffmpeg_outcome, ffprobe_outcome>>

pipeVars == <<audio_file, text_file, text_input, files, created, temp_input,
              temp_wav_path, temp_srt_path, exc, result, propagated, remove_failed,
              callLog, file_read, srt_content>>

syncLocals == <<sentences, total_estimated_duration, compression_ratio, regime,
                si, bi, current_time, subtitle_index, srt_entries>>

vars == <<pc, fn, sentences, audio_duration, wpm, total_estimated_duration,
          compression_ratio, regime, si, bi, current_time, subtitle_index,
          srt_entries, text, ret, pipeVars>>

(***************************************************************************)
(* Bounds of the model.                                                    *)
(***************************************************************************)
MaxSentences == 2
MaxWords == 12
MaxTargetHalves == 14
MaxTextWords == 17
MaxGap == 2
MaxWpm == 200
MaxPad == 1
MaxFineTargets == 6
MaxTimeHalves == 136
MaxTimeSteps == 8
MaxSentenceChars == 5
FloatBits == 8

(***************************************************************************)
(* Program constants.                                                      *)
(***************************************************************************)
WpmSliderMin == 150
WpmSliderMax == 180
WpmSliderStep == 5
WpmDefault == 165

(***************************************************************************)
(* Exact rational arithmetic.                                              *)
(***************************************************************************)
RECURSIVE GCD(_, _)
GCD(a, b) == IF b = 0 THEN a ELSE GCD(b, a % b)

Abs(x) == IF x < 0 THEN -x ELSE x

Rat(n, d) ==
    LET s == IF d < 0 THEN -1 ELSE 1
        g == GCD(Abs(n), Abs(d))
    IN  [n |-> (s * n) \div g, d |-> (s * d) \div g]

RInt(k) == [n |-> k, d |-> 1]
RAdd(a, b) == Rat(a.n * b.d + b.n * a.d, a.d * b.d)
RSub(a, b) == Rat(a.n * b.d - b.n * a.d, a.d * b.d)
RMul(a, b) == Rat(a.n * b.n, a.d * b.d)
RDiv(a, b) == Rat(a.n * b.d, a.d * b.n)
RLe(a, b) == a.n * b.d <= b.n * a.d
RLt(a, b) == a.n * b.d < b.n * a.d
RMax(a, b) == IF RLt(a, b) THEN b ELSE a
RMin(a, b) == IF RLt(b, a) THEN b ELSE a

(***************************************************************************)
(* Python float arithmetic: each operator rounds its exact result.         *)
(***************************************************************************)
RECURSIVE Pow2(_)
Pow2(k) == IF k = 0 THEN 1 ELSE 2 * Pow2(k - 1)

\* n / d rounded to the nearest integer, ties to even
RoundHalfEven(n, d) ==
    LET q == n \div d
        r == n - q * d
    IN  IF 2 * r > d \/ (2 * r = d /\ q % 2 = 1) THEN q + 1 ELSE q

\* the float nearest to n / d > 0: scale into [2^(FloatBits-1), 2^FloatBits),
\* round to an integer, scale back
RECURSIVE FlPos(_, _)
FlPos(n, d) ==
    IF n \div d >= Pow2(FloatBits)
    THEN LET r == FlPos(n, 2 * d) IN Rat(2 * r.n, r.d)
    ELSE IF n \div d < Pow2(FloatBits - 1)
         THEN LET r == FlPos(2 * n, d) IN Rat(r.n, 2 * r.d)
         ELSE RInt(RoundHalfEven(n, d))

Fl(x) ==
    IF x.n = 0 THEN x
    ELSE IF x.n < 0 THEN LET r == FlPos(-x.n, x.d) IN [n |-> -r.n, d |-> r.d]
    ELSE FlPos(x.n, x.d)

FAdd(a, b) == Fl(RAdd(a, b))
FSub(a, b) == Fl(RSub(a, b))
FMul(a, b) == Fl(RMul(a, b))
FDiv(a, b) == Fl(RDiv(a, b))

(***************************************************************************)
(* Python string operations.                                               *)
(***************************************************************************)
Alphabet == <<"a", "b", "c", "d", "e", "f", "g", "h", "i", "j", "k", "l", "m",
              "n", "o", "p", "q", "r", "s", "t", "u", "v", "w", "x", "y", "z">>

\* s[lo:hi] on a list or string (0-based, hi exclusive, clipped to the length)
Slice(s, lo, hi) ==
    LET h == IF hi > Len(s) THEN Len(s) ELSE hi
    IN  IF lo >= h THEN <<>> ELSE SubSeq(s, lo + 1, h)

\* str.split(): the maximal runs of non-whitespace characters, in order
RECURSIVE SplitFrom(_, _, _, _)
SplitFrom(s, i, cur, acc) ==
    IF i > Len(s)
    THEN IF cur = <<>> THEN acc ELSE Append(acc, cur)
    ELSE IF s[i] = " "
         THEN SplitFrom(s, i + 1, <<>>, IF cur = <<>> THEN acc ELSE Append(acc, cur))
         ELSE SplitFrom(s, i + 1, Append(cur, s[i]), acc)

Split(s) == SplitFrom(s, 1, <<>>, <<>>)

\* " ".join(parts)
RECURSIVE Join(_)
Join(parts) ==
    IF parts = <<>> THEN <<>>
    ELSE IF Len(parts) = 1 THEN parts[1]
    ELSE parts[1] \o <<" ">> \o Join(Tail(parts))

(***************************************************************************)
(* split_long_sentence (lines 138-165).                                    *)
(***************************************************************************)
\* the `if len(block_words) >= 4` test of line 150
KeepWindow(block_words) == Len(block_words) >= 4

\* the loop of lines 148-155, from offset i
RECURSIVE WindowBlocks(_, _)
WindowBlocks(words, i) ==
    IF i >= Len(words) THEN <<>>
    ELSE LET block_words == Slice(words, i, i + 8)
             line1 == Join(Slice(block_words, 0, 4))
             line2 == Join(Slice(block_words, 4, 8))
         IN  (IF KeepWindow(block_words) THEN << <<line1, line2>> >> ELSE <<>>)
             \o WindowBlocks(words, i + 8)

\* mutant: without the branch of lines 157-161, 4 to 7 words stay on one line
split_long_sentence_NoSecondLine(sentence) ==
    LET words == Split(sentence)
    IN  IF Len(words) >= 8 THEN WindowBlocks(words, 0)
        ELSE << <<Join(words), <<>> >> >>

split_long_sentence(sentence) ==
    LET words == Split(sentence)
    IN  IF Len(words) >= 8 THEN WindowBlocks(words, 0)
        ELSE IF Len(words) >= 4
             THEN << <<Join(Slice(words, 0, 4)),
                       IF Len(words) > 4 THEN Join(Slice(words, 4, 8)) ELSE <<>> >> >>
             ELSE << <<Join(words), <<>> >> >>

(***************************************************************************)
(* Durations.                                                              *)
(***************************************************************************)
MinDuration == Rat(3, 2)          \* 1.5
MaxDuration == RInt(6)            \* 6.0
CompressedFloor == RInt(1)        \* 1.0
Zero == RInt(0)

\* len(" ".join(block).split())
TotalWords(block) == Len(Split(Join(block)))

\* total_words / (wpm / 60)
RawDuration(total_words, w) == FDiv(RInt(total_words), FDiv(RInt(w), RInt(60)))

\* lines 183-187: the duration summed into total_estimated_duration
EstimatedBlockDuration(block, w) ==
    RMin(RMax(RawDuration(TotalWords(block), w), MinDuration), MaxDuration)

\* mutant: the compression branch forgets the 1.0 s floor of line 203
CompressedBlockDuration_NoFloor(block, w, ratio) ==
    FMul(RawDuration(TotalWords(block), w), ratio)

\* lines 199-203: the duration of a block in the compression branch
CompressedBlockDuration(block, w, ratio) ==
    RMax(FMul(RawDuration(TotalWords(block), w), ratio), CompressedFloor)

\* mutant: the normal branch forgets the 1.5 s floor of line 225
FitBlockDuration_NoFloor(block, w) ==
    RMin(RawDuration(TotalWords(block), w), MaxDuration)

\* mutant: the normal branch floors at 1.0 s, like the compression branch
FitBlockDuration_FloorOne(block, w) ==
    RMin(RMax(RawDuration(TotalWords(block), w), CompressedFloor), MaxDuration)

\* lines 222-226: the duration of a block in the normal branch
FitBlockDuration(block, w) ==
    RMin(RMax(RawDuration(TotalWords(block), w), MinDuration), MaxDuration)

\* line 206: `if current_time >= audio_duration: break`
CompressBudgetExhausted(cur, audio) == RLe(audio, cur)

\* line 208: duration = min(duration, audio_duration - current_time)
CompressTruncatedDuration(duration, audio, cur) == RMin(duration, FSub(audio, cur))

\* line 229: `if current_time >= audio_duration: break`
FitBudgetExhausted(cur, audio) == RLe(audio, cur)

\* line 231: duration = min(duration, audio_duration - current_time)
FitTruncatedDuration(duration, audio, cur) == RMin(duration, FSub(audio, cur))

\* a raised exception, as a value
Raised(name) == [exc |-> name]
IsRaised(v) == "exc" \in DOMAIN v

\* mutant: estimate_duration without the 1.5 s floor of line 133
estimate_duration_NoFloor(t, w) ==
    LET word_count == Len(Split(t))
        wps == FDiv(RInt(w), RInt(60))
    IN  IF wps.n = 0 THEN Raised("ZeroDivisionError")
        ELSE RMin(FDiv(RInt(word_count), wps), MaxDuration)

\* estimate_duration (lines 120-136); a zero wps raises at line 130
estimate_duration(t, w) ==
    LET word_count == Len(Split(t))
        wps == FDiv(RInt(w), RInt(60))
    IN  IF wps.n = 0 THEN Raised("ZeroDivisionError")
        ELSE RMin(RMax(FDiv(RInt(word_count), wps), MinDuration), MaxDuration)

\* lines 181-188: `total_estimated_duration += duration` over a sentence's blocks
RECURSIVE SumBlocks(_, _, _)
SumBlocks(total, blocks, w) ==
    IF blocks = <<>> THEN total
    ELSE SumBlocks(FAdd(total, EstimatedBlockDuration(Head(blocks), w)), Tail(blocks), w)

\* lines 178-188: the outer loop, from the running total
RECURSIVE SumSentences(_, _, _)
SumSentences(total, sents, w) ==
    IF sents = <<>> THEN total
    ELSE SumSentences(SumBlocks(total, split_long_sentence(Head(sents)), w), Tail(sents), w)

\* lines 177-188: total_estimated_duration after the first pair of loops
NaiveTotal(sents, w) == SumSentences(Zero, sents, w)

(***************************************************************************)
(* Inputs.                                                                 *)
(***************************************************************************)
Letter(i) == Alphabet[((i - 1) % Len(Alphabet)) + 1]

Spaces(k) == [i \in 1..k |-> " "]

\* n one-letter words, pairwise different up to the alphabet's size, separated
\* by `gap` spaces, after `lead` and before `trail` spaces
RECURSIVE WordsFrom(_, _, _)
WordsFrom(i, n, gap) ==
    IF i > n THEN <<>>
    ELSE IF i = n THEN <<Letter(i)>>
    ELSE <<Letter(i)>> \o Spaces(gap) \o WordsFrom(i + 1, n, gap)

MakeText(n, gap, lead, trail) == Spaces(lead) \o WordsFrom(1, n, gap) \o Spaces(trail)

\* sentences as split_text_into_sentences returns them: stripped, not empty
SyncLengths == {n \in 1..MaxWords : n % 4 \in {0, 1}}
SyncSentences == {MakeText(n, 1, 0, 0) : n \in SyncLengths}
SentenceLists == UNION {[1..k -> SyncSentences] : k \in 0..MaxSentences}
\* durations that use every bit of the significand, just below 4 seconds
FineTargets ==
    {Rat(Pow2(FloatBits) - k, Pow2(FloatBits - 2)) : k \in 1..MaxFineTargets}
Targets == {Rat(k, 2) : k \in 1..MaxTargetHalves} \cup FineTargets
\* the duration that is exactly the sum of the estimates, when there is one
TightTargets(sents, w) == {t \in {NaiveTotal(sents, w)} : t.n > 0}
SliderWpms == {w \in WpmSliderMin..WpmSliderMax : (w - WpmSliderMin) % WpmSliderStep = 0}
OffSliderWpms == {30, 60, 600}
SyncWpms == SliderWpms \cup OffSliderWpms

\* Python's None where a string is expected, and where a file is expected
NoneText == <<"None">>
NoFile == [ext |-> "None", content |-> NoneText]
NoResult == [message |-> "None", detail |-> NoneText, artifact |-> "None"]

\* no entry point is running
PipeIdleButText ==
    /\ audio_file = "None"
    /\ files = {}
    /\ created = {}
    /\ temp_input = "None"
    /\ temp_wav_path = "None"
    /\ temp_srt_path = "None"
    /\ exc = "None"
    /\ result = NoResult
    /\ propagated = FALSE
    /\ remove_failed = FALSE
    /\ ffmpeg_calls = 0
    /\ ffprobe_calls = 0
    /\ ffmpeg_outcome = "none"
    /\ ffprobe_outcome = "none"
    /\ file_read = FALSE
    /\ srt_content = <<>>

PipeIdle ==
    /\ text_file = NoFile
    /\ text_input = NoneText
    /\ PipeIdleButText

(***************************************************************************)
(* synchronize_with_audio (lines 167-240), one action per loop iteration.  *)
(***************************************************************************)

\* entry of the call, after lines 172-174
SyncInit ==
    /\ pc = "sync_start"
    /\ fn = "synchronize_with_audio"
    /\ sentences \in SentenceLists
    /\ wpm \in SyncWpms
    /\ audio_duration \in Targets \cup TightTargets(sentences, wpm)
    /\ total_estimated_duration = Zero
    /\ compression_ratio = Zero
    /\ regime = "none"
    /\ si = 0
    /\ bi = 0
    /\ current_time = Zero
    /\ subtitle_index = 1
    /\ srt_entries = <<>>
    /\ text = <<>>
    /\ ret = "none"
    /\ PipeIdle

\* lines 176-193 (and the else of line 216): the estimate and the choice of branch
Estimate ==
    /\ pc = "sync_start"
    /\ total_estimated_duration' = NaiveTotal(sentences, wpm)
    /\ IF RLt(audio_duration, total_estimated_duration')
       THEN /\ compression_ratio' = FDiv(audio_duration, total_estimated_duration')
            /\ regime' = "compress"
            /\ pc' = "compress"
       ELSE /\ compression_ratio' = compression_ratio
            /\ regime' = "fit"
            /\ pc' = "fit"
    /\ si' = 1
    /\ bi' = 1
    /\ UNCHANGED <<fn, sentences, audio_duration, wpm, current_time,
                   subtitle_index, srt_entries, text, ret,
                   pipeVars>>

\* mutant: every entry starts at 0 instead of at current_time
Emit_StartAtZero(block, duration) ==
    LET start_time == Zero
        end_time == FAdd(current_time, duration)
    IN  /\ srt_entries' = Append(srt_entries, <<subtitle_index, start_time, end_time, block>>)
        /\ subtitle_index' = subtitle_index + 1
        /\ current_time' = end_time

\* mutant: the new entry is put in front of the list
Emit_Prepend(block, duration) ==
    LET start_time == current_time
        end_time == FAdd(current_time, duration)
    IN  /\ srt_entries' = << <<subtitle_index, start_time, end_time, block>> >> \o srt_entries
        /\ subtitle_index' = subtitle_index + 1
        /\ current_time' = end_time

\* lines 210-215 and 233-238: append the entry and advance
Emit(block, duration) ==
    LET start_time == current_time
        end_time == FAdd(current_time, duration)
    IN  /\ srt_entries' = Append(srt_entries, <<subtitle_index, start_time, end_time, block>>)
        /\ subtitle_index' = subtitle_index + 1
        /\ current_time' = end_time

\* lines 197-215: one iteration of the inner loop of the compression branch
CompressIteration ==
    /\ pc = "compress"
    /\ si <= Len(sentences)
    /\ LET subtitle_blocks == split_long_sentence(sentences[si])
       IN  /\ bi <= Len(subtitle_blocks)
           /\ LET block == subtitle_blocks[bi]
                  duration == CompressedBlockDuration(block, wpm, compression_ratio)
              IN  IF CompressBudgetExhausted(current_time, audio_duration)
                  THEN /\ si' = si + 1
                       /\ bi' = 1
                       /\ UNCHANGED <<srt_entries, subtitle_index, current_time>>
                  ELSE /\ Emit(block, CompressTruncatedDuration(duration, audio_duration, current_time))
                       /\ bi' = bi + 1
                       /\ si' = si
    /\ UNCHANGED <<pc, fn, sentences, audio_duration, wpm, total_estimated_duration,
                   compression_ratio, regime, text, ret,
                   pipeVars>>

\* lines 195-197: the inner loop ran out of blocks, the outer loop goes on
CompressNextSentence ==
    /\ pc = "compress"
    /\ si <= Len(sentences)
    /\ bi > Len(split_long_sentence(sentences[si]))
    /\ si' = si + 1
    /\ bi' = 1
    /\ UNCHANGED <<pc, fn, sentences, audio_duration, wpm, total_estimated_duration,
                   compression_ratio, regime, current_time, subtitle_index,
                   srt_entries, text, ret,
                   pipeVars>>

\* lines 220-238: one iteration of the inner loop of the normal branch
FitIteration ==
    /\ pc = "fit"
    /\ si <= Len(sentences)
    /\ LET subtitle_blocks == split_long_sentence(sentences[si])
       IN  /\ bi <= Len(subtitle_blocks)
           /\ LET block == subtitle_blocks[bi]
                  duration == FitBlockDuration(block, wpm)
              IN  IF FitBudgetExhausted(current_time, audio_duration)
                  THEN /\ si' = si + 1
                       /\ bi' = 1
                       /\ UNCHANGED <<srt_entries, subtitle_index, current_time>>
                  ELSE /\ Emit(block, FitTruncatedDuration(duration, audio_duration, current_time))
                       /\ bi' = bi + 1
                       /\ si' = si
    /\ UNCHANGED <<pc, fn, sentences, audio_duration, wpm, total_estimated_duration,
                   compression_ratio, regime, text, ret,
                   pipeVars>>

\* lines 218-220: the inner loop ran out of blocks, the outer loop goes on
FitNextSentence ==
    /\ pc = "fit"
    /\ si <= Len(sentences)
    /\ bi > Len(split_long_sentence(sentences[si]))
    /\ si' = si + 1
    /\ bi' = 1
    /\ UNCHANGED <<pc, fn, sentences, audio_duration, wpm, total_estimated_duration,
                   compression_ratio, regime, current_time, subtitle_index,
                   srt_entries, text, ret,
                   pipeVars>>

\* line 240: return srt_entries
SyncReturn ==
    /\ pc \in {"compress", "fit"}
    /\ si > Len(sentences)
    /\ pc' = "done"
    /\ ret' = srt_entries
    /\ UNCHANGED <<fn, sentences, audio_duration, wpm, total_estimated_duration,
                   compression_ratio, regime, si, bi, current_time, subtitle_index,
                   srt_entries, text,
                   pipeVars>>

Next ==
    \/ Estimate
    \/ CompressIteration
    \/ CompressNextSentence
    \/ FitIteration
    \/ FitNextSentence
    \/ SyncReturn

Spec == SyncInit /\ [][Next]_vars

(***************************************************************************)
(* synchronize_with_audio as one call: the value of line 240.              *)
(***************************************************************************)
\* the locals after lines 172-174
SyncStart == [current_time |-> Zero, subtitle_index |-> 1, srt_entries |-> <<>>]

\* lines 197-215 (220-238): the inner loop over the blocks of one sentence, left
\* by the break of line 207 (230); compress tells the branch of line 191
RECURSIVE SyncBlocksLoop(_, _, _, _, _, _)
SyncBlocksLoop(blocks, st, audio, w, compress, ratio) ==
    IF blocks = <<>> THEN st
    ELSE IF (IF compress THEN CompressBudgetExhausted(st.current_time, audio)
                         ELSE FitBudgetExhausted(st.current_time, audio))
         THEN st
         ELSE LET block == Head(blocks)
                  duration ==
                      IF compress
                      THEN CompressTruncatedDuration(
                               CompressedBlockDuration(block, w, ratio),
                               audio, st.current_time)
                      ELSE FitTruncatedDuration(FitBlockDuration(block, w),
                                                audio, st.current_time)
                  end_time == FAdd(st.current_time, duration)
              IN  SyncBlocksLoop(Tail(blocks),
                      [current_time |-> end_time,
                       subtitle_index |-> st.subtitle_index + 1,
                       srt_entries |-> Append(st.srt_entries,
                           <<st.subtitle_index, st.current_time, end_time, block>>)],
                      audio, w, compress, ratio)

\* lines 195-196 (218-219): the outer loop over the sentences
RECURSIVE SyncSentencesLoop(_, _, _, _, _, _)
SyncSentencesLoop(sents, st, audio, w, compress, ratio) ==
    IF sents = <<>> THEN st
    ELSE SyncSentencesLoop(Tail(sents),
             SyncBlocksLoop(split_long_sentence(Head(sents)), st, audio, w, compress, ratio),
             audio, w, compress, ratio)

\* synchronize_with_audio (lines 167-240)
synchronize_with_audio(sents, audio, w) ==
    LET total == NaiveTotal(sents, w)
        compress == RLt(audio, total)
        ratio == IF compress THEN FDiv(audio, total) ELSE Zero
    IN  SyncSentencesLoop(sents, SyncStart, audio, w, compress, ratio).srt_entries

(***************************************************************************)
(* The alignment entry points (lines 357-535) and what they call.          *)
(***************************************************************************)
ErrorPrefix == <<"E", "r", "r", "o", "r">>

\* `not t` for a string or None
Falsy(t) == t = NoneText \/ t = <<>>

\* t.startswith(p)
StartsWith(t, p) == Len(t) >= Len(p) /\ SubSeq(t, 1, Len(p)) = p

\* t.strip()
RECURSIVE LStrip(_)
LStrip(t) == IF t # <<>> /\ Head(t) = " " THEN LStrip(Tail(t)) ELSE t

RECURSIVE RStrip(_)
RStrip(t) == IF t # <<>> /\ t[Len(t)] = " " THEN RStrip(SubSeq(t, 1, Len(t) - 1)) ELSE t

Strip(t) == RStrip(LStrip(t))

\* extract_text_from_file (lines 51-88); read_ok: the reader of the format is
\* installed and reads the file without raising
extract_text_from_file(file, read_ok) ==
    IF file = NoFile THEN <<NoneText, NoneText>>
    ELSE IF file.ext \in {"txt", "pdf", "docx"}
         THEN IF read_ok THEN <<file.content, NoneText>>
              ELSE <<ErrorPrefix \o <<" reading file">>, NoneText>>
         ELSE <<ErrorPrefix \o <<": Unsupported file format '", file.ext, "'">>, NoneText>>

\* mutant: the uploaded file wins over the typed text
combine_text_inputs_FileFirst(text_file_upload, text_input_type, read_ok) ==
    IF text_file_upload # NoFile
    THEN extract_text_from_file(text_file_upload, read_ok)
    ELSE IF ~Falsy(text_input_type) /\ Strip(text_input_type) # <<>>
         THEN <<Strip(text_input_type), NoneText>>
         ELSE <<NoneText, <<"No text provided. Please upload a file or type text.">> >>

\* combine_text_inputs (lines 347-355)
combine_text_inputs(text_file_upload, text_input_type, read_ok) ==
    IF ~Falsy(text_input_type) /\ Strip(text_input_type) # <<>>
    THEN <<Strip(text_input_type), NoneText>>
    ELSE IF text_file_upload # NoFile
         THEN extract_text_from_file(text_file_upload, read_ok)
         ELSE <<NoneText, <<"No text provided. Please upload a file or type text.">> >>

\* extract_text_from_input (lines 336-345)
extract_text_from_input(text_file_arg, text_input_arg, read_ok) ==
    IF ~Falsy(text_input_arg) /\ Strip(text_input_arg) # <<>>
    THEN <<Strip(text_input_arg), NoneText>>
    ELSE IF text_file_arg # NoFile
         THEN extract_text_from_file(text_file_arg, read_ok)
         ELSE <<NoneText, <<"No text provided. Please upload a file or type text.">> >>

\* mutant: the file is handed to extract_text_from_file whenever there is one
ConsultsFile_Always(text_file_upload, text_input_type) == text_file_upload # NoFile

\* lines 349-353 (338-343): the call of extract_text_from_file is reached with a file
ConsultsFile(text_file_upload, text_input_type) ==
    /\ ~(~Falsy(text_input_type) /\ Strip(text_input_type) # <<>>)
    /\ text_file_upload # NoFile

DefaultDuration == RInt(60)       \* 60.0, lines 99 and 101 (and 508)

\* mutant: a timeout of the probe is not caught
get_audio_duration_TimeoutPropagates(outcome, value) ==
    IF outcome = "ok" THEN value
    ELSE IF outcome = "timeout" THEN Raised("TimeoutExpired")
    ELSE DefaultDuration

\* mutant: the fallback duration is 0.0
get_audio_duration_DefaultZero(outcome, value) == IF outcome = "ok" THEN value ELSE Zero

\* get_audio_duration (lines 90-101): the probed value, or the default 60.0
get_audio_duration(outcome, value) == IF outcome = "ok" THEN value ELSE DefaultDuration

\* line 370 (435, 488): `not audio_file or not hasattr(audio_file, 'name')`
ValidAudio(a) == a \notin {"None", "no_name"}

\* mutant: only an extraction error is rejected, an absent text is not
RejectsText_OnlyErrorPrefix(t) == StartsWith(t, ErrorPrefix)

\* line 374 (439, 492)
RejectsText(t) == Falsy(t) \/ StartsWith(t, ErrorPrefix)

\* line 108: `not text or not text.strip()`
SentencesEmpty(t) == Falsy(t) \/ Strip(t) = <<>>

\* lines 267-268 and 450: split_into_fixed_chunks(text, 4) is empty
ChunksEmpty(t) == Split(t) = <<>>

(***************************************************************************)
(* Time formatting and SRT serialisation (lines 43-49 and 242-263).        *)
(***************************************************************************)
\* x // m for floats x >= 0, m > 0 (CPython float_divmod): mod = fmod(x, m),
\* div = (x - mod) / m, then floor(div), one more if div - floor(div) > 0.5
FMod(x, m) == RSub(x, RMul(RInt((x.n * m.d) \div (x.d * m.n)), m))

FFloorDiv(x, m) ==
    LET div == FDiv(FSub(x, FMod(x, m)), m)
        floordiv == div.n \div div.d
    IN  IF RLt(Rat(1, 2), RSub(div, RInt(floordiv))) THEN RInt(floordiv + 1)
        ELSE RInt(floordiv)

\* int(x) for a float x >= 0
Trunc(x) == x.n \div x.d

DigitChars == <<"0", "1", "2", "3", "4", "5", "6", "7", "8", "9">>

\* str(n) for an integer n >= 0
RECURSIVE ToStr(_)
ToStr(n) == IF n < 10 THEN <<DigitChars[n + 1]>>
            ELSE ToStr(n \div 10) \o <<DigitChars[(n % 10) + 1]>>

\* f"{n:0w}": zero padding up to the width w, never cutting digits
RECURSIVE ZeroPad(_, _)
ZeroPad(digits, w) == IF Len(digits) >= w THEN digits ELSE ZeroPad(<<"0">> \o digits, w)

\* line 48: millis = int((seconds % 1) * 1000)
Millis(seconds) == Trunc(FMul(FMod(seconds, RInt(1)), RInt(1000)))

\* format_srt_time (lines 43-49)
format_srt_time(seconds) ==
    LET hours == Trunc(FFloorDiv(seconds, RInt(3600)))
        minutes == Trunc(FFloorDiv(FMod(seconds, RInt(3600)), RInt(60)))
        secs == Trunc(FMod(seconds, RInt(60)))
        millis == Millis(seconds)
    IN  ZeroPad(ToStr(hours), 2) \o <<":">> \o ZeroPad(ToStr(minutes), 2) \o <<":">>
        \o ZeroPad(ToStr(secs), 2) \o <<",">> \o ZeroPad(ToStr(millis), 3)

Newline == <<"\n">>
Arrow == <<" ", "-", "-", ">", " ">>

\* mutant: the second line is written even when it is blank
SrtGroup_AlwaysSecondLine(e) ==
    LET line1 == e[4][1]
        line2 == e[4][2]
    IN  ToStr(e[1]) \o Newline
        \o format_srt_time(e[2]) \o Arrow \o format_srt_time(e[3]) \o Newline
        \o line1 \o Newline
        \o line2 \o Newline
        \o Newline

\* lines 250-261: what one iteration of the loop appends to srt_content
SrtGroup(e) ==
    LET line1 == e[4][1]
        line2 == e[4][2]
    IN  ToStr(e[1]) \o Newline
        \o format_srt_time(e[2]) \o Arrow \o format_srt_time(e[3]) \o Newline
        \o line1 \o Newline
        \o (IF Strip(line2) # <<>> THEN line2 \o Newline ELSE <<>>)
        \o Newline

\* generate_srt_content (lines 242-263)
RECURSIVE generate_srt_content(_)
generate_srt_content(entries) ==
    IF entries = <<>> THEN <<>>
    ELSE SrtGroup(Head(entries)) \o generate_srt_content(Tail(entries))

(***************************************************************************)
(* Segmentation of the text (lines 103-118 and 265-272).                   *)
(***************************************************************************)
\* mutant: the question mark does not end a sentence
SentenceEnd_NoQuestionMark == {".", "!"}

\* the character class [.!?] of line 117
SentenceEnd == {".", "!", "?"}

\* line 117: re.split(r'(?<=[.!?]) +', ...), `cur` the piece being read
RECURSIVE ReSplit(_, _)
ReSplit(t, cur) ==
    IF t = <<>> THEN <<cur>>
    ELSE IF Head(t) = " " /\ cur # <<>> /\ cur[Len(cur)] \in SentenceEnd
         THEN <<cur>> \o ReSplit(LStrip(t), <<>>)
         ELSE ReSplit(Tail(t), Append(cur, Head(t)))

\* line 118: [s.strip() for s in sentences if s.strip()]
RECURSIVE StripAll(_)
StripAll(pieces) ==
    IF pieces = <<>> THEN <<>>
    ELSE (IF Strip(Head(pieces)) # <<>> THEN <<Strip(Head(pieces))>> ELSE <<>>)
         \o StripAll(Tail(pieces))

\* split_text_into_sentences (lines 103-118), the regular-expression path
split_text_into_sentences(t) ==
    IF SentencesEmpty(t) THEN <<>>
    ELSE StripAll(ReSplit(Strip(t), <<>>))

\* split_into_fixed_chunks (lines 265-268), from offset i
RECURSIVE ChunksFrom(_, _, _)
ChunksFrom(words, i, chunk_size) ==
    IF i >= Len(words) THEN <<>>
    ELSE <<Join(Slice(words, i, i + chunk_size))>> \o ChunksFrom(words, i + chunk_size, chunk_size)

split_into_fixed_chunks(t, chunk_size) == ChunksFrom(Split(t), 0, chunk_size)

\* group_chunks (lines 270-272), from offset i
RECURSIVE group_chunks_from(_, _, _)
group_chunks_from(chunks, i, lines_per_block) ==
    IF i >= Len(chunks) THEN <<>>
    ELSE <<Slice(chunks, i, i + lines_per_block)>>
         \o group_chunks_from(chunks, i + lines_per_block, lines_per_block)

group_chunks(chunks, lines_per_block) == group_chunks_from(chunks, 0, lines_per_block)

(***************************************************************************)
(* The equal-division timing of the smart and dummy variants.              *)
(***************************************************************************)
MinBlockDuration == RInt(2)       \* min_block_duration = 2.0, line 454 (506)

\* mutant: the audio is always divided evenly, without the floor
smart_timing_NoFloor(audio, block_count) ==
    [duration_per_block |-> FDiv(audio, RInt(block_count)), total_duration |-> audio]

\* mutant: under the floor the total stays the probed duration
smart_timing_FloorKeepsAudio(audio, block_count) ==
    LET total_min_duration == FMul(MinBlockDuration, RInt(block_count))
    IN  IF RLt(audio, total_min_duration)
        THEN [duration_per_block |-> MinBlockDuration, total_duration |-> audio]
        ELSE [duration_per_block |-> FDiv(audio, RInt(block_count)),
              total_duration |-> audio]

\* lines 454-461: duration_per_block and total_duration of the smart variant
smart_timing(audio, block_count) ==
    LET total_min_duration == FMul(MinBlockDuration, RInt(block_count))
    IN  IF RLt(audio, total_min_duration)
        THEN [duration_per_block |-> MinBlockDuration,
              total_duration |-> FMul(MinBlockDuration, RInt(block_count))]
        ELSE [duration_per_block |-> FDiv(audio, RInt(block_count)),
              total_duration |-> audio]

\* mutant: the dummy variant spreads the blocks over 30 seconds
dummy_timing_HalfMinute(block_count) ==
    LET total_min_duration == FMul(MinBlockDuration, RInt(block_count))
        total_time == RInt(30)
    IN  IF RLt(total_time, total_min_duration)
        THEN [duration_per_block |-> MinBlockDuration,
              total_duration |-> FMul(MinBlockDuration, RInt(block_count))]
        ELSE [duration_per_block |-> FDiv(total_time, RInt(block_count)),
              total_duration |-> total_time]

\* lines 506-514: the same with total_time = 60.0
dummy_timing(block_count) ==
    LET total_min_duration == FMul(MinBlockDuration, RInt(block_count))
        total_time == DefaultDuration
    IN  IF RLt(total_time, total_min_duration)
        THEN [duration_per_block |-> MinBlockDuration,
              total_duration |-> FMul(MinBlockDuration, RInt(block_count))]
        ELSE [duration_per_block |-> FDiv(total_time, RInt(block_count)),
              total_duration |-> total_time]

\* lines 465-467 (518-520): the end of block i, counted from 0
SlotEnd(i, block_count, timing) ==
    IF i = block_count - 1 THEN timing.total_duration
    ELSE FMul(RInt(i + 1), timing.duration_per_block)

\* lines 463-467 (516-520): (i + 1, start, end, block) of the blocks from i on
RECURSIVE SlotsFrom(_, _, _)
SlotsFrom(blocks, i, timing) ==
    IF i >= Len(blocks) THEN <<>>
    ELSE << <<i + 1, FMul(RInt(i), timing.duration_per_block),
              SlotEnd(i, Len(blocks), timing), blocks[i + 1]>> >>
         \o SlotsFrom(blocks, i + 1, timing)

\* '\n'.join(block)
RECURSIVE JoinLines(_)
JoinLines(block) ==
    IF block = <<>> THEN <<>>
    ELSE IF Len(block) = 1 THEN Head(block)
    ELSE Head(block) \o Newline \o JoinLines(Tail(block))

\* lines 468-470 (521-523): the SRT text of the entries of the loop
RECURSIVE SlotsSrt(_)
SlotsSrt(slots) ==
    IF slots = <<>> THEN <<>>
    ELSE LET e == Head(slots)
         IN  ToStr(e[1]) \o Newline
             \o format_srt_time(e[2]) \o Arrow \o format_srt_time(e[3]) \o Newline
             \o JoinLines(e[4]) \o Newline \o Newline
             \o SlotsSrt(Tail(slots))

\* lines 449-452 (501-504): the blocks of the smart and dummy variants
FixedBlocks(t) == group_chunks(split_into_fixed_chunks(t, 4), 2)

\* lines 449-467: the entries the smart variant writes for a text and a duration
smart_entries(t, audio) ==
    LET blocks == FixedBlocks(t) IN SlotsFrom(blocks, 0, smart_timing(audio, Len(blocks)))

\* lines 501-520: the entries the dummy variant writes for a text
dummy_entries(t) ==
    LET blocks == FixedBlocks(t) IN SlotsFrom(blocks, 0, dummy_timing(Len(blocks)))

\* line 326: os.unlink(temp_wav.name) after a non-zero exit of ffmpeg
NonZeroExitFiles(fs) == fs \ {"temp_wav"}

\* lines 330-333: the except handler of convert_audio_to_wav
ExceptHandlerFiles(tin, fs) ==
    (fs \ (IF tin = "temp_input" THEN {"temp_input"} ELSE {})) \ {"temp_wav"}

\* mutant: the except clause catches OSError only
Catches_OnlyOSError(e) == e = "OSError"

\* line 422 (475, 528): `except Exception` catches every exception of the body
Catches(e) == e \in {"OSError", "UnboundLocalError", "Exception"}

\* mutant: the finally clause removes nothing
FinallyRemoves_Never(path, fs) == FALSE

\* line 425 (478, 531): `if temp_wav_path and os.path.exists(temp_wav_path)`
FinallyRemoves(path, fs) == path # "None" /\ path \in fs

Failure(kind, detail) == [message |-> kind, detail |-> detail, artifact |-> "None"]
Success(path) == [message |-> "success", detail |-> NoneText, artifact |-> path]

EntryPoints == {"professional_align_text_with_audio", "smart_align_text_with_audio",
                "dummy_align_text_with_audio"}
AudioFiles == {"None", "no_name", "readable", "named_value", "named_path", "unsupported"}
PlainText == MakeText(5, 1, 1, 1)
LongText == MakeText(MaxTextWords, 1, 0, 0)
TwoSentenceText == MakeText(2, 1, 0, 0) \o <<".", " ", " ">> \o MakeText(3, 1, 0, 0)
ErrorText == ErrorPrefix \o <<" ">> \o MakeText(2, 1, 0, 0)
TextInputs == {NoneText, <<>>, Spaces(2), PlainText, LongText, TwoSentenceText, ErrorText}
FileContents == {<<>>, Spaces(2), PlainText}
TextFiles == {NoFile} \cup {[ext |-> e, content |-> c] :
                              e \in {"txt", "pdf", "docx", "xyz"}, c \in FileContents}
\* how subprocess.run of ffmpeg (line 324) and the creation of its output end
FfmpegOutcomes == {"ok", "nonzero", "run_raises", "timeout", "create_fails"}
\* how subprocess.run of ffprobe (line 95) and float() of its output (line 97) end
ProbeOutcomes == {"ok", "nonzero", "not_installed", "raises", "timeout", "not_a_number"}
\* the durations a successful probe reports
ProbeValues == {Zero, RInt(1), Rat(MaxTargetHalves, 2)}

(***************************************************************************)
(* Calls of the pure functions.                                            *)
(***************************************************************************)
Texts == {MakeText(n, gap, lead, trail) :
            n \in 0..MaxTextWords, gap \in 1..MaxGap, lead \in 0..MaxPad, trail \in 0..MaxPad}

TextFunctions == {"split_long_sentence", "estimate_duration"}
InputFunctions == {"combine_text_inputs", "extract_text_from_input"}

\* floats of FloatBits bits: a fine grid over [0, 2], and times past a minute
\* and past an hour
TimeInputs ==
    {Rat(k, Pow2(FloatBits - 1)) : k \in 0..Pow2(FloatBits)}
        \cup {Rat(MaxTimeHalves - k, 2) : k \in 0..(2 * MaxTimeSteps)}
        \cup {RInt(3600 + 16 * k) : k \in 0..MaxTimeSteps}

\* texts of letters, sentence marks and spaces, up to MaxSentenceChars characters
SentenceChars == {"a", ".", "!", "?", " "}
PunctuatedTexts == UNION {[1..k -> SentenceChars] : k \in 0..MaxSentenceChars}

\* the argument of format_srt_time is held in audio_duration
FnInit ==
    /\ pc = "call"
    /\ fn \in TextFunctions \cup InputFunctions
              \cup {"format_srt_time", "split_text_into_sentences"}
    /\ text \in (IF fn \in TextFunctions THEN Texts
                 ELSE IF fn = "split_text_into_sentences" THEN PunctuatedTexts
                 ELSE {<<>>})
    /\ wpm \in (IF fn = "estimate_duration" THEN 1..MaxWpm ELSE {WpmDefault})
    /\ text_file \in (IF fn \in InputFunctions THEN TextFiles ELSE {NoFile})
    /\ text_input \in (IF fn \in InputFunctions THEN TextInputs ELSE {NoneText})
    /\ audio_duration \in (IF fn = "format_srt_time" THEN TimeInputs ELSE {Zero})
    /\ sentences = <<>>
    /\ total_estimated_duration = Zero
    /\ compression_ratio = Zero
    /\ regime = "none"
    /\ si = 0
    /\ bi = 0
    /\ current_time = Zero
    /\ subtitle_index = 1
    /\ srt_entries = <<>>
    /\ ret = "none"
    /\ PipeIdleButText

CallSplitLongSentence ==
    /\ pc = "call"
    /\ fn = "split_long_sentence"
    /\ ret' = split_long_sentence(text)
    /\ pc' = "returned"
    /\ UNCHANGED <<fn, sentences, audio_duration, wpm, total_estimated_duration,
                   compression_ratio, regime, si, bi, current_time, subtitle_index,
                   srt_entries, text,
                   pipeVars>>

CallEstimateDuration ==
    /\ pc = "call"
    /\ fn = "estimate_duration"
    /\ ret' = estimate_duration(text, wpm)
    /\ pc' = "returned"
    /\ UNCHANGED <<fn, sentences, audio_duration, wpm, total_estimated_duration,
                   compression_ratio, regime, si, bi, current_time, subtitle_index,
                   srt_entries, text,
                   pipeVars>>

CallFormatSrtTime ==
    /\ pc = "call"
    /\ fn = "format_srt_time"
    /\ ret' = format_srt_time(audio_duration)
    /\ pc' = "returned"
    /\ UNCHANGED <<fn, sentences, audio_duration, wpm, total_estimated_duration,
                   compression_ratio, regime, si, bi, current_time, subtitle_index,
                   srt_entries, text,
                   pipeVars>>

fnUnchanged == <<fn, sentences, audio_duration, wpm, total_estimated_duration,
                 compression_ratio, regime, si, bi, current_time, subtitle_index,
                 srt_entries, text, audio_file, text_file, text_input, files, created,
                 temp_input, temp_wav_path, temp_srt_path, exc, result, propagated,
                 remove_failed, callLog, srt_content>>

CallCombineTextInputs ==
    /\ pc = "call"
    /\ fn = "combine_text_inputs"
    /\ \E read_ok \in BOOLEAN : ret' = combine_text_inputs(text_file, text_input, read_ok)
    /\ file_read' = ConsultsFile(text_file, text_input)
    /\ pc' = "returned"
    /\ UNCHANGED fnUnchanged

CallExtractTextFromInput ==
    /\ pc = "call"
    /\ fn = "extract_text_from_input"
    /\ \E read_ok \in BOOLEAN : ret' = extract_text_from_input(text_file, text_input, read_ok)
    /\ file_read' = ConsultsFile(text_file, text_input)
    /\ pc' = "returned"
    /\ UNCHANGED fnUnchanged

CallSplitTextIntoSentences ==
    /\ pc = "call"
    /\ fn = "split_text_into_sentences"
    /\ ret' = split_text_into_sentences(text)
    /\ pc' = "returned"
    /\ UNCHANGED <<fn, sentences, audio_duration, wpm, total_estimated_duration,
                   compression_ratio, regime, si, bi, current_time, subtitle_index,
                   srt_entries, text,
                   pipeVars>>

NextFn ==
    \/ CallSplitTextIntoSentences
    \/ CallSplitLongSentence
    \/ CallEstimateDuration
    \/ CallFormatSrtTime
    \/ CallCombineTextInputs
    \/ CallExtractTextFromInput

SpecFn == FnInit /\ [][NextFn]_vars

(***************************************************************************)
(* The steps of an alignment entry point.                                  *)
(***************************************************************************)
\* entry of an alignment call, after lines 367-368
PipeInit ==
    /\ pc = "entry"
    /\ fn \in EntryPoints
    /\ audio_file \in AudioFiles
    /\ text_file \in TextFiles
    /\ text_input \in TextInputs
    /\ wpm = WpmDefault
    /\ files = {}
    /\ created = {}
    /\ temp_input = "None"
    /\ temp_wav_path = "None"
    /\ temp_srt_path = "None"
    /\ exc = "None"
    /\ result = NoResult
    /\ propagated = FALSE
    /\ remove_failed = FALSE
    /\ ffmpeg_calls = 0
    /\ ffprobe_calls = 0
    /\ ffmpeg_outcome = "none"
    /\ ffprobe_outcome = "none"
    /\ file_read = FALSE
    /\ srt_content = <<>>
    /\ text = NoneText
    /\ ret = "none"
    /\ sentences = <<>>
    /\ audio_duration = Zero
    /\ total_estimated_duration = Zero
    /\ compression_ratio = Zero
    /\ regime = "none"
    /\ si = 0
    /\ bi = 0
    /\ current_time = Zero
    /\ subtitle_index = 1
    /\ srt_entries = <<>>

\* a `return message, None` or `return summary, path` inside the try
Return(r) == pc' = "finally" /\ result' = r /\ exc' = exc

\* an exception raised inside the try
Raise(e) == pc' = "except" /\ result' = result /\ exc' = e

Goto(p) == pc' = p /\ result' = result /\ exc' = exc

pipeInputs == <<fn, wpm, ret, syncLocals, audio_file, text_file, text_input, propagated>>

\* lines 370-375 (435-440, 488-493): the checks of the audio and of the text
Validate ==
    /\ pc = "entry"
    /\ \E read_ok \in BOOLEAN :
         LET r == combine_text_inputs(text_file, text_input, read_ok)
         IN  IF ~ValidAudio(audio_file)
             THEN text' = text /\ Return(Failure("no_audio", NoneText))
             ELSE IF RejectsText(r[1])
                  THEN text' = text /\ Return(Failure("no_text", r[2]))
                  ELSE text' = r[1] /\ Goto("convert_input")
    /\ file_read' = (ValidAudio(audio_file) /\ ConsultsFile(text_file, text_input))
    /\ UNCHANGED <<pipeInputs, audio_duration, files, created, temp_input,
                   temp_wav_path, temp_srt_path, remove_failed, callLog, srt_content>>

\* convert_audio_to_wav, lines 283-310: the temporary copy of the upload
ConvertInput ==
    /\ pc = "convert_input"
    /\ \E o \in {"ok", "create_fails", "write_fails"} :
         IF audio_file \in {"readable", "named_value"}
         THEN IF o = "create_fails"
              THEN /\ Raise("OSError")
                   /\ UNCHANGED <<files, created, temp_input>>
              ELSE /\ files' = files \cup {"temp_input"}
                   /\ created' = created \cup {"temp_input"}
                   /\ temp_input' = "temp_input"
                   /\ IF o = "write_fails" THEN Raise("OSError") ELSE Goto("convert_ffmpeg")
         ELSE IF audio_file = "named_path"
              THEN /\ temp_input' = "source_path"
                   /\ Goto("convert_ffmpeg")
                   /\ UNCHANGED <<files, created>>
              ELSE /\ Return(Failure("conversion_error", <<"Unsupported audio file object type">>))
                   /\ UNCHANGED <<files, created, temp_input>>
    /\ UNCHANGED <<pipeInputs, audio_duration, text, temp_wav_path, temp_srt_path,
                   remove_failed, callLog, file_read, srt_content>>

\* convert_audio_to_wav, lines 313-334, and the caller's lines 378-380
ConvertFfmpeg ==
    /\ pc = "convert_ffmpeg"
    /\ \E o \in FfmpegOutcomes, rm_ok \in BOOLEAN :
         /\ ffmpeg_calls' = IF o = "create_fails" THEN ffmpeg_calls ELSE ffmpeg_calls + 1
         /\ ffmpeg_outcome' = IF o = "create_fails" THEN ffmpeg_outcome ELSE o
         /\ CASE o = "create_fails" ->
                \* line 314 raises; the handler then reads the unbound temp_wav
                /\ files' = IF rm_ok THEN ExceptHandlerFiles(temp_input, files) ELSE files
                /\ remove_failed' = (remove_failed \/ (temp_input = "temp_input" /\ ~rm_ok))
                /\ Raise(IF temp_input = "temp_input" /\ ~rm_ok
                         THEN "OSError" ELSE "UnboundLocalError")
                /\ UNCHANGED <<created, temp_wav_path>>
           [] o = "ok" ->
                /\ files' = files \cup {"temp_wav"}
                /\ created' = created \cup {"temp_wav"}
                /\ temp_wav_path' = "temp_wav"
                /\ Goto("process")
                /\ UNCHANGED remove_failed
           [] o = "nonzero" ->
                /\ created' = created \cup {"temp_wav"}
                /\ files' = IF rm_ok THEN NonZeroExitFiles(files \cup {"temp_wav"})
                                     ELSE files \cup {"temp_wav"}
                /\ remove_failed' = (remove_failed \/ ~rm_ok)
                /\ IF rm_ok THEN Return(Failure("conversion_error", <<"FFmpeg error">>))
                            ELSE Raise("OSError")
                /\ UNCHANGED temp_wav_path
           [] o \in {"run_raises", "timeout"} ->
                \* line 324 raises (TimeoutExpired after 60 s, or another error)
                /\ created' = created \cup {"temp_wav"}
                /\ files' = IF rm_ok THEN ExceptHandlerFiles(temp_input, files \cup {"temp_wav"})
                                     ELSE files \cup {"temp_wav"}
                /\ remove_failed' = (remove_failed \/ ~rm_ok)
                /\ IF rm_ok THEN Return(Failure("conversion_error", <<"str(e)">>))
                            ELSE Raise("OSError")
                /\ UNCHANGED temp_wav_path
    /\ UNCHANGED <<pipeInputs, audio_duration, text, temp_input, temp_srt_path,
                   ffprobe_calls, ffprobe_outcome, file_read, srt_content>>

\* lines 382-388: the probe and the sentences of the professional variant, up
\* to the call of synchronize_with_audio
ProcessProfessional ==
    /\ pc = "process"
    /\ fn = "professional_align_text_with_audio"
    /\ \E po \in ProbeOutcomes, pv \in ProbeValues, o \in {"ok", "raises"} :
         LET sents == split_text_into_sentences(text)
             probed == get_audio_duration(po, pv)
         IN  /\ ffprobe_calls' = ffprobe_calls + 1
             /\ ffprobe_outcome' = po
             /\ IF IsRaised(probed)
                THEN Raise("Exception") /\ UNCHANGED <<sentences, audio_duration>>
                ELSE /\ audio_duration' = probed
                     /\ IF sents = <<>>
                        THEN /\ Return(Failure("no_sentences", NoneText))
                             /\ UNCHANGED sentences
                        ELSE IF o = "raises"
                             THEN Raise("Exception") /\ UNCHANGED sentences
                             ELSE Goto("sync_start") /\ sentences' = sents
    /\ UNCHANGED <<fn, wpm, ret, total_estimated_duration, compression_ratio, regime,
                   si, bi, current_time, subtitle_index, srt_entries,
                   audio_file, text_file, text_input, propagated,
                   text, files, created, temp_input, temp_wav_path,
                   temp_srt_path, remove_failed, ffmpeg_calls, ffmpeg_outcome,
                   file_read, srt_content>>

\* line 394: srt_content = generate_srt_content(srt_entries)
Serialize ==
    /\ pc = "done"
    /\ fn = "professional_align_text_with_audio"
    /\ srt_content' = generate_srt_content(srt_entries)
    /\ Goto("write_srt")
    /\ UNCHANGED <<pipeInputs, audio_duration, text, files, created, temp_input,
                   temp_wav_path, temp_srt_path, remove_failed, callLog, file_read>>

\* lines 447-470: the probe, the blocks and the timing of the smart variant
ProcessSmart ==
    /\ pc = "process"
    /\ fn = "smart_align_text_with_audio"
    /\ \E po \in ProbeOutcomes, pv \in ProbeValues, o \in {"ok", "raises"} :
         LET probed == get_audio_duration(po, pv)
         IN  /\ ffprobe_calls' = ffprobe_calls + 1
             /\ ffprobe_outcome' = po
             /\ IF IsRaised(probed)
                THEN Raise("Exception") /\ UNCHANGED <<srt_entries, srt_content, audio_duration>>
                ELSE /\ audio_duration' = probed
                     /\ IF text = NoneText \/ o = "raises"
                        THEN Raise("Exception") /\ UNCHANGED <<srt_entries, srt_content>>
                        ELSE IF ChunksEmpty(text)
                             THEN /\ Return(Failure("no_chunks", NoneText))
                                  /\ UNCHANGED <<srt_entries, srt_content>>
                             ELSE /\ srt_entries' = smart_entries(text, probed)
                                  /\ srt_content' = SlotsSrt(srt_entries')
                                  /\ Goto("write_srt")
    /\ UNCHANGED <<fn, wpm, ret, sentences, total_estimated_duration, compression_ratio,
                   regime, si, bi, current_time, subtitle_index,
                   audio_file, text_file, text_input, propagated,
                   text, files, created, temp_input, temp_wav_path,
                   temp_srt_path, remove_failed, ffmpeg_calls, ffmpeg_outcome, file_read>>

\* lines 500-523: the blocks and the timing of the dummy variant
ProcessDummy ==
    /\ pc = "process"
    /\ fn = "dummy_align_text_with_audio"
    /\ \E o \in {"ok", "raises"} :
         IF text = NoneText \/ o = "raises"
         THEN Raise("Exception") /\ UNCHANGED <<srt_entries, srt_content, audio_duration>>
         ELSE IF ChunksEmpty(text)
              THEN /\ Return(Failure("no_chunks", NoneText))
                   /\ UNCHANGED <<srt_entries, srt_content, audio_duration>>
              ELSE /\ audio_duration' = DefaultDuration
                   /\ srt_entries' = dummy_entries(text)
                   /\ srt_content' = SlotsSrt(srt_entries')
                   /\ Goto("write_srt")
    /\ UNCHANGED <<fn, wpm, ret, sentences, total_estimated_duration, compression_ratio,
                   regime, si, bi, current_time, subtitle_index,
                   audio_file, text_file, text_input, propagated,
                   text, files, created, temp_input, temp_wav_path,
                   temp_srt_path, remove_failed, callLog, file_read>>

\* lines 396-420 (471-474, 524-527): the SRT file and the successful return
WriteSrt ==
    /\ pc = "write_srt"
    /\ \E o \in {"ok", "mkstemp_fails", "write_fails"} :
         IF o = "mkstemp_fails"
         THEN /\ Raise("OSError")
              /\ UNCHANGED <<files, created, temp_srt_path>>
         ELSE /\ files' = files \cup {"temp_srt"}
              /\ created' = created \cup {"temp_srt"}
              /\ temp_srt_path' = "temp_srt"
              /\ IF o = "write_fails" THEN Raise("OSError") ELSE Return(Success("temp_srt"))
    /\ UNCHANGED <<pipeInputs, audio_duration, text, temp_input, temp_wav_path,
                   remove_failed, callLog, file_read, srt_content>>

\* lines 422-423 (475-476, 528-529)
Except ==
    /\ pc = "except"
    /\ pc' = "finally"
    /\ IF Catches(exc)
       THEN result' = Failure("error", <<"str(e)">>) /\ exc' = "None"
       ELSE UNCHANGED <<result, exc>>
    /\ UNCHANGED <<pipeInputs, audio_duration, text, files, created, temp_input,
                   temp_wav_path, temp_srt_path, remove_failed, callLog, file_read,
                   srt_content>>

\* lines 424-429 (477-482, 530-535), then the return or the pending exception
Finally ==
    /\ pc = "finally"
    /\ IF FinallyRemoves(temp_wav_path, files)
       THEN \E rm_ok \in BOOLEAN :
              /\ files' = IF rm_ok THEN files \ {temp_wav_path} ELSE files
              /\ remove_failed' = (remove_failed \/ ~rm_ok)
       ELSE UNCHANGED <<files, remove_failed>>
    /\ pc' = IF exc = "None" THEN "returned" ELSE "raised"
    /\ propagated' = (exc # "None")
    /\ UNCHANGED <<fn, wpm, ret, syncLocals, audio_file, text_file, text_input,
                   audio_duration, text, created, temp_input, temp_wav_path,
                   temp_srt_path, exc, result, callLog, file_read, srt_content>>

NextPipe ==
    \/ Validate
    \/ ConvertInput
    \/ ConvertFfmpeg
    \/ ProcessProfessional
    \/ Estimate
    \/ CompressIteration
    \/ CompressNextSentence
    \/ FitIteration
    \/ FitNextSentence
    \/ SyncReturn
    \/ Serialize
    \/ ProcessSmart
    \/ ProcessDummy
    \/ WriteSrt
    \/ Except
    \/ Finally

SpecPipe == PipeInit /\ [][NextPipe]_vars

(***************************************************************************)
(* Two alignment invocations at once.  The locals of an entry point become *)
(* functions of the invocation; `files` is the one temporary directory both *)
(* use: what each temporary name holds and which invocation created it.    *)
(* temp_wav_path[p] holds temp_wav.name while convert_audio_to_wav runs    *)
(* and the value line 378 assigns once it is over.  Removals succeed here. *)
(***************************************************************************)
Invocations == {"A", "B"}
TempNames == {"tmp1", "tmp2", "tmp3"}
NoPath == "None"
SourcePath == "source_path"

Absent == [owner |-> "none", data |-> [kind |-> "empty"]]
EmptyFile(p) == [owner |-> p, data |-> [kind |-> "empty"]]
Audio(d) == [kind |-> "audio", duration |-> d]
Srt(c) == [kind |-> "srt", content |-> c]

\* mutant: a temporary name is handed out even when a file of that name exists
FreshNames_AnyName(fs) == TempNames

\* tempfile.NamedTemporaryFile and tempfile.mkstemp (lines 288, 314, 397) open
\* the new file exclusively: the name they return is one no file has
FreshNames(fs) == {n \in TempNames : fs[n] = Absent}

\* open(name, "wb").write(data) and ffmpeg -y: the file of that name gets data
WriteByName(fs, n, p, data) ==
    [fs EXCEPT ![n] = [owner |-> IF @ = Absent THEN p ELSE @.owner, data |-> data]]

\* os.unlink(name), os.remove(name)
RemoveByName(fs, n) == [fs EXCEPT ![n] = Absent]

Upd(f, p, v) == [f EXCEPT ![p] = v]

\* the variables no step of an invocation touches in this specification
concIdle == <<wpm, sentences, total_estimated_duration, compression_ratio, regime,
              si, bi, current_time, subtitle_index, text_file, propagated,
              remove_failed, ffmpeg_calls, ffprobe_calls, file_read,
              fn, audio_file, text_input>>

\* both invocations entered, after lines 367-368; ret[p] collects the
\* creations of temporary files that failed for p
ConcInit ==
    /\ pc = [p \in Invocations |-> "entry"]
    /\ fn \in [Invocations -> EntryPoints]
    /\ audio_file \in {[A |-> [kind |-> ka, data |-> RInt(1)],
                        B |-> [kind |-> kb, data |-> Rat(MaxTargetHalves, 2)]] :
                          ka \in {"readable", "named_path"},
                          kb \in {"readable", "named_path"}}
    /\ text_input = [A |-> PlainText, B |-> TwoSentenceText]
    /\ text_file = NoFile
    /\ text = [p \in Invocations |-> NoneText]
    /\ files = [n \in TempNames |-> Absent]
    /\ created = [p \in Invocations |-> {}]
    /\ temp_input = [p \in Invocations |-> NoPath]
    /\ temp_wav_path = [p \in Invocations |-> NoPath]
    /\ temp_srt_path = [p \in Invocations |-> NoPath]
    /\ exc = [p \in Invocations |-> "None"]
    /\ result = [p \in Invocations |-> NoResult]
    /\ ffmpeg_outcome = [p \in Invocations |-> "none"]
    /\ ffprobe_outcome = [p \in Invocations |-> "none"]
    /\ audio_duration = [p \in Invocations |-> Zero]
    /\ srt_entries = [p \in Invocations |-> <<>>]
    /\ srt_content = [p \in Invocations |-> <<>>]
    /\ ret = [p \in Invocations |-> {}]
    /\ wpm = WpmDefault
    /\ sentences = <<>>
    /\ total_estimated_duration = Zero
    /\ compression_ratio = Zero
    /\ regime = "none"
    /\ si = 0
    /\ bi = 0
    /\ current_time = Zero
    /\ subtitle_index = 1
    /\ propagated = FALSE
    /\ remove_failed = FALSE
    /\ ffmpeg_calls = 0
    /\ ffprobe_calls = 0
    /\ file_read = FALSE

ReturnOf(p, r) == pc' = Upd(pc, p, "finally") /\ result' = Upd(result, p, r) /\ exc' = exc
RaiseOf(p, e) == pc' = Upd(pc, p, "except") /\ result' = result /\ exc' = Upd(exc, p, e)
GotoOf(p, pos) == pc' = Upd(pc, p, pos) /\ result' = result /\ exc' = exc

\* lines 370-375 (435-440, 488-493)
ValidateOf(p) ==
    /\ pc[p] = "entry"
    /\ LET r == combine_text_inputs(text_file, text_input[p], TRUE)
       IN  IF ~ValidAudio(audio_file[p].kind)
           THEN text' = text /\ ReturnOf(p, Failure("no_audio", NoneText))
           ELSE IF RejectsText(r[1])
                THEN text' = text /\ ReturnOf(p, Failure("no_text", r[2]))
                ELSE text' = Upd(text, p, r[1]) /\ GotoOf(p, "convert_input")
    /\ UNCHANGED <<concIdle, files, created, temp_input, temp_wav_path, temp_srt_path,
                   ffmpeg_outcome, ffprobe_outcome, audio_duration, srt_entries,
                   srt_content, ret>>

\* lines 286-289 and 307-310: the temporary file for the upload is created
CreateInputOf(p) ==
    /\ pc[p] = "convert_input"
    /\ IF audio_file[p].kind \in {"readable", "named_value"}
       THEN \/ \E n \in FreshNames(files) :
                 /\ files' = [files EXCEPT ![n] = EmptyFile(p)]
                 /\ created' = Upd(created, p, created[p] \cup {n})
                 /\ temp_input' = Upd(temp_input, p, n)
                 /\ GotoOf(p, "write_input")
                 /\ UNCHANGED ret
            \/ /\ ret' = Upd(ret, p, ret[p] \cup {"temp_input"})
               /\ RaiseOf(p, "OSError")
               /\ UNCHANGED <<files, created, temp_input>>
       ELSE IF audio_file[p].kind = "named_path"
            THEN /\ temp_input' = Upd(temp_input, p, SourcePath)
                 /\ GotoOf(p, "create_wav")
                 /\ UNCHANGED <<files, created, ret>>
            ELSE /\ ReturnOf(p, Failure("conversion_error",
                                        <<"Unsupported audio file object type">>))
                 /\ UNCHANGED <<files, created, temp_input, ret>>
    /\ UNCHANGED <<concIdle, text, temp_wav_path, temp_srt_path, ffmpeg_outcome,
                   ffprobe_outcome, audio_duration, srt_entries, srt_content>>

\* lines 290-291: the upload is written to the file named temp_input.name
WriteInputOf(p) ==
    /\ pc[p] = "write_input"
    /\ files' = WriteByName(files, temp_input[p], p, Audio(audio_file[p].data))
    /\ GotoOf(p, "create_wav")
    /\ UNCHANGED <<concIdle, text, created, temp_input, temp_wav_path, temp_srt_path,
                   ffmpeg_outcome, ffprobe_outcome, audio_duration, srt_entries,
                   srt_content, ret>>

\* lines 314-315, and lines 329-334 when the creation raises: the handler
\* unlinks temp_input.name and then fails on the unbound temp_wav
CreateWavOf(p) ==
    /\ pc[p] = "create_wav"
    /\ \/ \E n \in FreshNames(files) :
            /\ files' = [files EXCEPT ![n] = EmptyFile(p)]
            /\ created' = Upd(created, p, created[p] \cup {n})
            /\ temp_wav_path' = Upd(temp_wav_path, p, n)
            /\ GotoOf(p, "run_ffmpeg")
            /\ UNCHANGED ret
       \/ /\ files' = IF temp_input[p] \in TempNames /\ files[temp_input[p]] # Absent
                      THEN RemoveByName(files, temp_input[p]) ELSE files
          /\ ret' = Upd(ret, p, ret[p] \cup {"temp_wav"})
          /\ RaiseOf(p, "UnboundLocalError")
          /\ UNCHANGED <<created, temp_wav_path>>
    /\ UNCHANGED <<concIdle, text, temp_input, temp_srt_path, ffmpeg_outcome,
                   ffprobe_outcome, audio_duration, srt_entries, srt_content>>

\* what ffmpeg finds under the name of its input
FfmpegInput(p) ==
    IF temp_input[p] = SourcePath THEN Audio(audio_file[p].data)
    ELSE files[temp_input[p]].data

\* lines 316-328 and 378-380: ffmpeg reads its input by name and writes
\* temp_wav.name; an input that is not audio makes it exit non-zero
RunFfmpegOf(p) ==
    /\ pc[p] = "run_ffmpeg"
    /\ \E o \in {"ok", "nonzero"} :
         /\ o = "ok" => FfmpegInput(p).kind = "audio"
         /\ ffmpeg_outcome' = Upd(ffmpeg_outcome, p, o)
         /\ IF o = "ok"
            THEN /\ files' = WriteByName(files, temp_wav_path[p], p, FfmpegInput(p))
                 /\ GotoOf(p, "process")
                 /\ UNCHANGED temp_wav_path
            ELSE /\ files' = RemoveByName(files, temp_wav_path[p])
                 /\ temp_wav_path' = Upd(temp_wav_path, p, NoPath)
                 /\ ReturnOf(p, Failure("conversion_error", <<"FFmpeg error">>))
    /\ UNCHANGED <<concIdle, text, created, temp_input, temp_srt_path, ffprobe_outcome,
                   audio_duration, srt_entries, srt_content, ret>>

\* what ffprobe reports for the file named audio_path (lines 93-97)
ProbeOf(p, o) ==
    LET found == files[temp_wav_path[p]].data
    IN  get_audio_duration(IF o = "ok" /\ found.kind # "audio" THEN "not_a_number" ELSE o,
                           IF found.kind = "audio" THEN found.duration ELSE Zero)

\* the entries and the SRT text a variant builds from a text and a duration
EntriesOf(f, t, duration) ==
    IF f = "professional_align_text_with_audio"
    THEN synchronize_with_audio(split_text_into_sentences(t), duration, WpmDefault)
    ELSE IF f = "smart_align_text_with_audio" THEN smart_entries(t, duration)
    ELSE dummy_entries(t)

ContentOf(f, entries) ==
    IF f = "professional_align_text_with_audio" THEN generate_srt_content(entries)
    ELSE SlotsSrt(entries)

\* lines 382-394 (447-470, 500-523): the probe, which the dummy variant does
\* not make, and the entries and the text built from it
ProcessOf(p) ==
    /\ pc[p] = "process"
    /\ \E o \in (IF fn[p] = "dummy_align_text_with_audio" THEN {"none"}
                 ELSE {"ok", "nonzero"}) :
         LET duration == IF o = "none" THEN DefaultDuration ELSE ProbeOf(p, o)
             empty == IF fn[p] = "professional_align_text_with_audio"
                      THEN split_text_into_sentences(text[p]) = <<>>
                      ELSE ChunksEmpty(text[p])
         IN  /\ ffprobe_outcome' = Upd(ffprobe_outcome, p, o)
             /\ audio_duration' = Upd(audio_duration, p, duration)
             /\ IF empty
                THEN /\ ReturnOf(p, Failure("no_sentences", NoneText))
                     /\ UNCHANGED <<srt_entries, srt_content>>
                ELSE /\ srt_entries' = Upd(srt_entries, p, EntriesOf(fn[p], text[p], duration))
                     /\ srt_content' = Upd(srt_content, p, ContentOf(fn[p], srt_entries'[p]))
                     /\ GotoOf(p, "write_srt")
    /\ UNCHANGED <<concIdle, text, files, created, temp_input, temp_wav_path,
                   temp_srt_path, ffmpeg_outcome, ret>>

\* lines 396-420 (471-474, 524-527): mkstemp, the write through the descriptor
\* it returned, and the successful return
WriteSrtOf(p) ==
    /\ pc[p] = "write_srt"
    /\ \/ \E n \in FreshNames(files) :
            /\ files' = [files EXCEPT ![n] = [owner |-> p, data |-> Srt(srt_content[p])]]
            /\ created' = Upd(created, p, created[p] \cup {n})
            /\ temp_srt_path' = Upd(temp_srt_path, p, n)
            /\ ReturnOf(p, Success(n))
            /\ UNCHANGED ret
       \/ /\ ret' = Upd(ret, p, ret[p] \cup {"temp_srt"})
          /\ RaiseOf(p, "OSError")
          /\ UNCHANGED <<files, created, temp_srt_path>>
    /\ UNCHANGED <<concIdle, text, temp_input, temp_wav_path, ffmpeg_outcome,
                   ffprobe_outcome, audio_duration, srt_entries, srt_content>>

\* lines 422-423 (475-476, 528-529)
ExceptOf(p) ==
    /\ pc[p] = "except"
    /\ pc' = Upd(pc, p, "finally")
    /\ result' = Upd(result, p, Failure("error", <<"str(e)">>))
    /\ exc' = Upd(exc, p, "None")
    /\ UNCHANGED <<concIdle, text, files, created, temp_input, temp_wav_path, temp_srt_path,
                   ffmpeg_outcome, ffprobe_outcome, audio_duration, srt_entries,
                   srt_content, ret>>

\* lines 424-429 (477-482, 530-535), then the return
FinallyOf(p) ==
    /\ pc[p] = "finally"
    /\ files' = IF temp_wav_path[p] # NoPath /\ files[temp_wav_path[p]] # Absent
                THEN RemoveByName(files, temp_wav_path[p]) ELSE files
    /\ pc' = Upd(pc, p, "returned")
    /\ UNCHANGED <<concIdle, text, created, temp_input, temp_wav_path, temp_srt_path,
                   exc, result, ffmpeg_outcome, ffprobe_outcome, audio_duration,
                   srt_entries, srt_content, ret>>

NextConc ==
    \/ \E p \in Invocations : ValidateOf(p)
    \/ \E p \in Invocations : CreateInputOf(p)
    \/ \E p \in Invocations : WriteInputOf(p)
    \/ \E p \in Invocations : CreateWavOf(p)
    \/ \E p \in Invocations : RunFfmpegOf(p)
    \/ \E p \in Invocations : ProcessOf(p)
    \/ \E p \in Invocations : WriteSrtOf(p)
    \/ \E p \in Invocations : ExceptOf(p)
    \/ \E p \in Invocations : FinallyOf(p)

SpecConc == ConcInit /\ [][NextConc]_vars

(***************************************************************************)
(* Properties.                                                             *)
(***************************************************************************)
LastEntry == srt_entries[Len(srt_entries)]
EntryDuration(e) == RSub(e[3], e[2])

\* the words of line1 then line2 of every block, in block order
RECURSIVE BlockWords(_)
BlockWords(blocks) ==
    IF blocks = <<>> THEN <<>>
    ELSE Split(Head(blocks)[1]) \o Split(Head(blocks)[2]) \o BlockWords(Tail(blocks))

CeilDiv(a, b) == (a + b - 1) \div b

C2_CompressedCoversTarget ==
    (pc = "done" /\ regime = "compress")
        => (srt_entries # <<>> /\ LastEntry[3] = audio_duration)

\* C3 as stated: in the compression branch current_time never passes the target
\* after an entry is appended, and once current_time >= target no step appends
\* an entry, neither for the remaining blocks of the sentence nor for any later
\* sentence.
C3_CompressionStaysInBudget ==
    [][regime = "compress"
         => /\ RLe(current_time', audio_duration)
            /\ RLe(audio_duration, current_time) => srt_entries' = srt_entries]_vars


\* C4: the entry list always has indices 1..n in order, starts at 0, has every
\* entry start where the previous one ended, and has start <= end throughout.
C4_EntriesContiguous ==
    \A i \in 1..Len(srt_entries) :
        /\ srt_entries[i][1] = i
        /\ srt_entries[i][2] = (IF i = 1 THEN Zero ELSE srt_entries[i - 1][3])
        /\ RLe(srt_entries[i][2], srt_entries[i][3])

C4_Witness ==
    /\ pc = "done"
    /\ regime = "compress"
    /\ Len(srt_entries) >= 3
    /\ LastEntry[3] = audio_duration

\* C5 as stated: split_long_sentence keeps every word of a sentence of n >= 1
\* words, once and in order, and returns ceil(n/8) blocks when n >= 8.
C5_NoWordLost ==
    (pc = "returned" /\ fn = "split_long_sentence" /\ Len(Split(text)) >= 1)
        => /\ BlockWords(ret) = Split(text)
           /\ Len(Split(text)) >= 8 => Len(ret) = CeilDiv(Len(Split(text)), 8)

\* C6 as stated: with wpm in [150, 180] every entry lasts between 1.5 and 6
\* seconds.
C6_DisplayTimeInRange ==
    (wpm \in WpmSliderMin..WpmSliderMax)
        => \A i \in 1..Len(srt_entries) :
              /\ RLe(MinDuration, EntryDuration(srt_entries[i]))
              /\ RLe(EntryDuration(srt_entries[i]), MaxDuration)

\* C7: estimate_duration returns, without raising, a value in [1.5, 6.0] for
\* every word count >= 0 and every wpm > 0, and exactly 1.5 for no words.
C7_EstimateInRange ==
    (pc = "returned" /\ fn = "estimate_duration" /\ wpm > 0)
        => /\ ~IsRaised(ret)
           /\ RLe(MinDuration, ret)
           /\ RLe(ret, MaxDuration)
           /\ Split(text) = <<>> => ret = MinDuration

C7_Witness ==
    /\ pc = "returned"
    /\ fn = "estimate_duration"
    /\ text # <<>>
    /\ Split(text) = <<>>
    /\ ret = MinDuration

\* the timing steps of NextPipe are total once their position guards hold:
\* every operator they apply is defined on every value, so a step exists
\* exactly when one of these guards does
TimingStepReady ==
    \/ pc = "sync_start"
    \/ /\ pc \in {"compress", "fit"}
       /\ \/ si > Len(sentences)
          \/ /\ si <= Len(sentences)
             /\ \/ bi <= Len(split_long_sentence(sentences[si]))
                \/ bi > Len(split_long_sentence(sentences[si]))
    \/ pc = "done" /\ fn = "professional_align_text_with_audio"
    \/ /\ pc = "process"
       /\ fn \in {"smart_align_text_with_audio", "dummy_align_text_with_audio"}

\* some step of the entry point can be taken
CanStep ==
    \/ TimingStepReady
    \/ ENABLED (Validate \/ ConvertInput \/ ConvertFfmpeg \/ ProcessProfessional
                  \/ WriteSrt \/ Except \/ Finally)

\* C8: an alignment entry point never lets an exception out: from every
\* position it goes on to return, what it returns is a (message, artifact) pair,
\* and a failure message comes with no artifact.
C8_AlwaysReturnsPair ==
    /\ ~propagated
    /\ pc # "raised"
    /\ pc # "returned" => CanStep
    /\ pc = "returned"
         => /\ result.message # "None"
            /\ result.message # "success" => result.artifact = "None"
            /\ result.message = "success" => result.artifact = temp_srt_path

C8_Witness ==
    /\ pc = "returned"
    /\ result.message = "error"
    /\ result.artifact = "None"
    /\ "temp_srt" \in created

\* C9: when an entry point returns and no file removal failed, the transcoded
\* WAV file of the invocation does not exist.
C9_WavRemoved ==
    (pc = "returned" /\ ~remove_failed) => "temp_wav" \notin files

C9_Witness ==
    /\ pc = "returned"
    /\ ~remove_failed
    /\ "temp_wav" \in created
    /\ result.message = "error"

\* C10 as stated: when an entry point returns (no file removal having failed),
\* every temporary file it created, other than the returned artifact, is gone.
C10_NoTempFileLeft ==
    (pc = "returned" /\ ~remove_failed)
        => (files \cap created) \ {result.artifact} = {}

Blank(t) == Falsy(t) \/ Strip(t) = <<>>
Mentions(detail, piece) == \E i \in 1..Len(detail) : detail[i] = piece
TimedVariants == {"smart_align_text_with_audio", "dummy_align_text_with_audio"}
ProbingVariants == {"professional_align_text_with_audio", "smart_align_text_with_audio"}

\* C11 as stated: when the ffmpeg call or the ffprobe call of an invocation
\* timed out, the invocation returns a failure message with no artifact, and
\* neither call is issued more than once.
C11_TimeoutReportsFailure ==
    /\ ffmpeg_calls <= 1
    /\ ffprobe_calls <= 1
    /\ (pc = "returned" /\ "timeout" \in {ffmpeg_outcome, ffprobe_outcome})
         => (result.message # "success" /\ result.artifact = "None")

\* C11 amended: a timeout of ffmpeg ends the invocation with a failure message
\* and no artifact, before any probe; a timeout of ffprobe is absorbed by
\* get_audio_duration, which returns the default 60.0 s, so no exception and no
\* conversion error comes of it and the invocation goes on against a 60-second
\* target; neither call is issued more than once.
C11_TimeoutAbortsOrDefaults ==
    /\ ffmpeg_calls <= 1
    /\ ffprobe_calls <= 1
    /\ ffmpeg_outcome = "timeout"
         => /\ ffprobe_calls = 0
            /\ pc \in {"except", "finally", "returned"}
            /\ pc = "returned"
                 => /\ result.message \in {"conversion_error", "error"}
                    /\ result.artifact = "None"
    /\ ffprobe_outcome = "timeout"
         => /\ audio_duration = DefaultDuration
            /\ result.message # "conversion_error"

C11_Witness ==
    /\ pc = "returned"
    /\ ffprobe_outcome = "timeout"
    /\ ffprobe_calls = 1
    /\ result.message = "success"
    /\ result.artifact = "temp_srt"

\* C12: get_audio_duration raises for no outcome of the probe; after a probe
\* that exited non-zero, was not installed, raised or printed something that is
\* not a number, the duration is the default 60.0 s, and a professional or smart
\* invocation that then succeeds returns the SRT file whose content was computed
\* against that 60-second target.
C12_ProbeFailureDefaults ==
    /\ \A po \in ProbeOutcomes, pv \in ProbeValues : ~IsRaised(get_audio_duration(po, pv))
    /\ (fn \in ProbingVariants /\ ffprobe_outcome \notin {"none", "ok"})
         => /\ audio_duration = DefaultDuration
            /\ (pc = "returned" /\ result.message = "success")
                 => /\ result.artifact = "temp_srt"
                    /\ srt_entries # <<>>
                    /\ RLe(LastEntry[3], DefaultDuration)
                    /\ fn = "smart_align_text_with_audio"
                         => srt_content = SlotsSrt(smart_entries(text, DefaultDuration))
                    /\ fn = "professional_align_text_with_audio"
                         => srt_content = generate_srt_content(srt_entries)

C12_Witness ==
    /\ pc = "returned"
    /\ fn = "professional_align_text_with_audio"
    /\ ffprobe_outcome = "not_a_number"
    /\ audio_duration = DefaultDuration
    /\ result.message = "success"
    /\ Len(srt_entries) = 2

\* C13 as stated: with a valid audio object, no typed text and an uploaded file
\* whose extension is not txt, pdf or docx, the entry point returns a failure
\* message with no artifact, and the message names the extension.
C13_UnsupportedFormatNamed ==
    (/\ pc = "returned"
     /\ ValidAudio(audio_file)
     /\ Blank(text_input)
     /\ text_file # NoFile
     /\ text_file.ext \notin {"txt", "pdf", "docx"})
        => /\ result.message = "no_text"
           /\ result.artifact = "None"
           /\ Mentions(result.detail, text_file.ext)

\* C14 as stated: the professional entry point never returns a success report
\* with an artifact when the synchronizer returned no entry.
C14_EmptyEntriesReported ==
    (/\ pc = "returned"
     /\ fn = "professional_align_text_with_audio"
     /\ regime # "none"
     /\ srt_entries = <<>>)
        => /\ result.message # "success"
           /\ result.artifact = "None"

\* C15: with a valid audio object, no file and a typed text that is absent,
\* empty or only whitespace, split_text_into_sentences of the text is empty and
\* the entry point returns the no-text failure with no artifact, lets no
\* exception out and creates no SRT file.
C15_BlankTextRejected ==
    (/\ pc = "returned"
     /\ fn \in EntryPoints
     /\ ValidAudio(audio_file)
     /\ text_file = NoFile
     /\ Blank(text_input))
        => /\ split_text_into_sentences(text_input) = <<>>
           /\ result.message = "no_text"
           /\ result.detail = <<"No text provided. Please upload a file or type text.">>
           /\ result.artifact = "None"
           /\ ~propagated
           /\ "temp_srt" \notin created

C15_Witness ==
    /\ pc = "returned"
    /\ fn = "smart_align_text_with_audio"
    /\ ValidAudio(audio_file)
    /\ text_file = NoFile
    /\ text_input = Spaces(2)
    /\ result.message = "no_text"

\* C16: combine_text_inputs and extract_text_from_input return the trimmed typed
\* text, without handing the file to extract_text_from_file, whenever the typed
\* text is not blank; the file is consulted only when the typed text is blank.
C16_TypedTextWins ==
    (pc = "returned" /\ fn \in InputFunctions)
        => /\ ~Blank(text_input)
                => /\ ret = <<Strip(text_input), NoneText>>
                   /\ ~file_read
           /\ file_read => Blank(text_input)

C16_Witness ==
    /\ pc = "returned"
    /\ fn = "combine_text_inputs"
    /\ text_input = PlainText
    /\ text_file # NoFile
    /\ text_file.ext = "xyz"
    /\ ret[1] = Strip(PlainText)

C18_LastEndIsTarget ==
    (fn \in TimedVariants /\ srt_entries # <<>>) => LastEntry[3] = audio_duration

\* C18 amended: in the smart and dummy variants the last entry ends at the
\* larger of the target duration and 2.0 s times the number of blocks: at the
\* target when the target allows 2.0 s per block, past it otherwise.
C18_LastEndIsTotal ==
    (fn \in TimedVariants /\ srt_entries # <<>>)
        => LET floor_total == FMul(MinBlockDuration, RInt(Len(srt_entries)))
           IN  /\ LastEntry[3] = RMax(audio_duration, floor_total)
               /\ RLe(floor_total, audio_duration) => LastEntry[3] = audio_duration

C18_Witness ==
    /\ pc = "returned"
    /\ fn = "smart_align_text_with_audio"
    /\ result.message = "success"
    /\ Len(srt_entries) = 3
    /\ RLt(audio_duration, LastEntry[3])

\* C19: whatever the text, the SRT text the dummy variant builds is the SRT text
\* the smart variant builds for the same text when its probe reports 60.0 s.
C19_DummyIsSmartAtSixty ==
    (fn = "dummy_align_text_with_audio"
     /\ pc \in {"write_srt", "except", "finally", "returned"}
     /\ (pc = "write_srt" \/ srt_entries # <<>>))
        => /\ srt_entries = smart_entries(text, DefaultDuration)
           /\ srt_content = SlotsSrt(smart_entries(text, DefaultDuration))

C19_Witness ==
    /\ pc = "returned"
    /\ fn = "dummy_align_text_with_audio"
    /\ result.message = "success"
    /\ Len(srt_entries) = 3
    /\ srt_content # <<>>

\* hours, minutes, seconds and milliseconds by exact floors of the value
ExactFloorFormat(seconds) ==
    LET Floor(x) == x.n \div x.d
        Mod(x, m) == RSub(x, RMul(RInt(Floor(RDiv(x, m))), m))
        hours == Floor(RDiv(seconds, RInt(3600)))
        minutes == Floor(RDiv(Mod(seconds, RInt(3600)), RInt(60)))
        secs == Floor(Mod(seconds, RInt(60)))
        millis == Floor(RMul(Mod(seconds, RInt(1)), RInt(1000)))
    IN  ZeroPad(ToStr(hours), 2) \o <<":">> \o ZeroPad(ToStr(minutes), 2) \o <<":">>
        \o ZeroPad(ToStr(secs), 2) \o <<",">> \o ZeroPad(ToStr(millis), 3)

\* C20 as stated: format_srt_time(s) for s >= 0 is HH:MM:SS,mmm with
\* hours = floor(s/3600), minutes = floor((s mod 3600)/60), seconds =
\* floor(s mod 60) and millis = floor((s mod 1)*1000), truncated, never rounded.
C20_FormatTruncates ==
    (pc = "returned" /\ fn = "format_srt_time") => ret = ExactFloorFormat(audio_duration)

\* the lines of an SRT text: the pieces that end at each newline character
RECURSIVE LinesOf(_, _)
LinesOf(content, cur) ==
    IF content = <<>> THEN (IF cur = <<>> THEN <<>> ELSE <<cur>>)
    ELSE IF <<Head(content)>> = Newline
         THEN <<cur>> \o LinesOf(Tail(content), <<>>)
         ELSE LinesOf(Tail(content), Append(cur, Head(content)))

\* the lines the entries from i on are to give: index, time range, line1, line2
\* when it is not blank, one empty line
RECURSIVE GroupLines(_, _)
GroupLines(entries, i) ==
    IF i > Len(entries) THEN <<>>
    ELSE LET e == entries[i]
         IN  <<ToStr(e[1]), format_srt_time(e[2]) \o Arrow \o format_srt_time(e[3]), e[4][1]>>
             \o (IF Strip(e[4][2]) # <<>> THEN <<e[4][2]>> ELSE <<>>)
             \o << <<>> >>
             \o GroupLines(entries, i + 1)

\* C21: every entry synchronize_with_audio hands to generate_srt_content has a
\* block of exactly two lines, and the SRT text is, entry by entry in list
\* order, the index line, the time-range line, line1, line2 only when it is not
\* blank, and one empty line, with nothing before, between or after the groups.
C21_OneGroupPerEntry ==
    (fn = "professional_align_text_with_audio"
     /\ pc \in {"write_srt", "except", "finally", "returned"}
     /\ (pc = "write_srt" \/ srt_content # <<>>))
        => /\ \A i \in 1..Len(srt_entries) : Len(srt_entries[i][4]) = 2
           /\ srt_content # <<>> => <<srt_content[Len(srt_content)]>> = Newline
           /\ LinesOf(srt_content, <<>>) = GroupLines(srt_entries, 1)

C21_Witness ==
    /\ pc = "returned"
    /\ fn = "professional_align_text_with_audio"
    /\ result.message = "success"
    /\ Len(srt_entries) = 2
    /\ Strip(srt_entries[1][4][2]) = <<>>
    /\ Len(LinesOf(srt_content, <<>>)) = 8

\* what invocation p returns when it runs alone: the duration its own audio
\* gives, the text built from its own inputs, the message its own steps lead to
AloneDuration(p) ==
    IF fn[p] = "dummy_align_text_with_audio" \/ ffprobe_outcome[p] # "ok"
    THEN DefaultDuration ELSE audio_file[p].data

AloneContent(p) ==
    ContentOf(fn[p], EntriesOf(fn[p], Strip(text_input[p]), AloneDuration(p)))

AloneMessage(p) ==
    IF ret[p] # {} THEN "error"
    ELSE IF ffmpeg_outcome[p] = "nonzero" THEN "conversion_error"
    ELSE "success"

\* the invocation that takes the step
Mover(p) == pc'[p] # pc[p]

\* C22: with the steps of two invocations interleaved in every way, each
\* returns the message and the SRT text it returns alone, its artifact holds
\* that text, and no step deletes, overwrites or reads a temporary file the
\* other invocation created.
C22_InvocationsIndependent ==
    /\ [](\A p \in Invocations :
            pc[p] = "returned"
              => /\ result[p].message = AloneMessage(p)
                 /\ result[p].message = "success"
                      => /\ srt_content[p] = AloneContent(p)
                         /\ files[result[p].artifact]
                              = [owner |-> p, data |-> Srt(srt_content[p])])
    /\ [][\A p \in Invocations :
            Mover(p)
              => /\ \A n \in TempNames :
                      files'[n] # files[n] => files[n].owner \in {"none", p}
                 /\ (pc[p] = "run_ffmpeg" /\ temp_input[p] \in TempNames)
                      => files[temp_input[p]].owner = p
                 /\ (pc[p] = "process" /\ ffprobe_outcome'[p] # "none")
                      => files[temp_wav_path[p]].owner = p]_vars

\* both invocations are under way at once, A with its SRT file written and B
\* about to probe its own WAV file
C22_Witness ==
    /\ pc["A"] = "finally"
    /\ result["A"].message = "success"
    /\ pc["B"] = "process"
    /\ files[temp_wav_path["A"]].owner = "A"
    /\ files[temp_wav_path["B"]].owner = "B"
    /\ files[temp_srt_path["A"]].owner = "A"

\* C23 as stated: in the compression branch the duration given to an emitted
\* block is min(max(ratio * c, 1.0), target - current_time), c being the block's
\* duration clamped to [1.5, 6.0] that was summed into naive_total.
C23_ScalesClampedDuration ==
    [][(regime = "compress" /\ Len(srt_entries') > Len(srt_entries))
         => LET block == srt_entries'[Len(srt_entries')][4]
                c == EstimatedBlockDuration(block, wpm)
                scaled == RMax(FMul(c, compression_ratio), CompressedFloor)
                duration == RMin(scaled, FSub(audio_duration, current_time))
            IN  current_time' = FAdd(current_time, duration)]_vars

\* C24: for a sentence of n <= 7 words split_long_sentence returns, without
\* raising, exactly one block of two lines, each line its words joined by single
\* spaces: line1 holds the first min(n, 4) words and line2 the n - 4 words after
\* them, so line2 is empty for n <= 4 and both lines are empty for n = 0.
C24_ShortSentenceOneBlock ==
    (pc = "returned" /\ fn = "split_long_sentence" /\ Len(Split(text)) <= 7)
        => LET words == Split(text)
               n == Len(words)
           IN  /\ Len(ret) = 1
               /\ Len(ret[1]) = 2
               /\ Split(ret[1][1]) = SubSeq(words, 1, IF n < 4 THEN n ELSE 4)
               /\ Split(ret[1][2]) = SubSeq(words, 5, n)
               /\ Join(Split(ret[1][1])) = ret[1][1]
               /\ Join(Split(ret[1][2])) = ret[1][2]
               /\ n <= 4 => ret[1][2] = <<>>
               /\ n = 0 => ret[1][1] = <<>>

C24_Witness ==
    /\ pc = "returned"
    /\ fn = "split_long_sentence"
    /\ Len(Split(text)) = 7
    /\ Len(text) > 13
    /\ Len(Split(ret[1][1])) = 4
    /\ Len(Split(ret[1][2])) = 3

\* the blocks of the sentences in order, one list
RECURSIVE FlatBlocks(_)
FlatBlocks(sents) ==
    IF sents = <<>> THEN <<>>
    ELSE split_long_sentence(Head(sents)) \o FlatBlocks(Tail(sents))

\* C25: at every moment the blocks of the entries, in entry order, are the
\* first blocks of the sentences' blocks taken in order, and a step that emits
\* an entry emits the block the loops stand at, which is the next block of that
\* order: nothing is emitted after a skipped block, reordered or emitted twice.
C25_EntriesArePrefix ==
    /\ [](fn = "synchronize_with_audio"
            => /\ Len(srt_entries) <= Len(FlatBlocks(sentences))
               /\ \A i \in 1..Len(srt_entries) :
                    srt_entries[i][4] = FlatBlocks(sentences)[i])
    /\ [][(fn = "synchronize_with_audio" /\ srt_entries' # srt_entries)
            => /\ Len(srt_entries)
                    = Len(FlatBlocks(SubSeq(sentences, 1, si - 1))) + bi - 1
               /\ Len(srt_entries') = Len(srt_entries) + 1
               /\ SubSeq(srt_entries', 1, Len(srt_entries)) = srt_entries
               /\ srt_entries'[Len(srt_entries')][4]
                    = split_long_sentence(sentences[si])[bi]]_vars

C25_Witness ==
    /\ pc = "done"
    /\ fn = "synchronize_with_audio"
    /\ Len(srt_entries) >= 2
    /\ Len(srt_entries) < Len(FlatBlocks(sentences))
    /\ srt_entries[1][4] # srt_entries[2][4]

\* the words of the sentences, in order
RECURSIVE SentenceWords(_)
SentenceWords(sents) ==
    IF sents = <<>> THEN <<>> ELSE Split(Head(sents)) \o SentenceWords(Tail(sents))

\* the places of a text where '.', '!' or '?' is followed by a space
CutPoints(t) == {i \in 1..(Len(t) - 1) : t[i] \in {".", "!", "?"} /\ t[i + 1] = " "}

\* C26: the regular-expression path of split_text_into_sentences cuts the
\* trimmed text at every run of spaces that follows '.', '!' or '?' and nowhere
\* else: there is one sentence more than there are such places, every sentence
\* but the last ends in a mark and none holds such a place inside; no sentence
\* is empty or padded, and the words of the sentences in order are the words of
\* the text.
C26_CutsAfterSentenceMarks ==
    (pc = "returned" /\ fn = "split_text_into_sentences")
        => /\ Split(text) = <<>> => ret = <<>>
           /\ Split(text) # <<>> => Len(ret) = Cardinality(CutPoints(Strip(text))) + 1
           /\ SentenceWords(ret) = Split(text)
           /\ \A i \in 1..Len(ret) :
                /\ ret[i] # <<>>
                /\ Strip(ret[i]) = ret[i]
                /\ CutPoints(ret[i]) = {}
                /\ i < Len(ret) => ret[i][Len(ret[i])] \in {".", "!", "?"}

C26_Witness ==
    /\ pc = "returned"
    /\ fn = "split_text_into_sentences"
    /\ text = <<"a", "?", " ", " ", "a">>
    /\ ret = << <<"a", "?">>, <<"a">> >>

C28_OnlyLastBelowOneSecond ==
    (fn = "synchronize_with_audio" /\ regime = "compress")
        => \A i \in 1..Len(srt_entries) :
              /\ RLt(Zero, EntryDuration(srt_entries[i]))
              /\ i < Len(srt_entries) => RLe(CompressedFloor, EntryDuration(srt_entries[i]))

\* the duration lines 199-208 give the block of entry e, which starts at e[2]
AssignedDuration(e) ==
    CompressTruncatedDuration(CompressedBlockDuration(e[4], wpm, compression_ratio),
                              audio_duration, e[2])

\* C28 amended: in the compression branch every entry ends after it starts, its
\* end is the float sum of its start and the duration assigned to its block,
\* and that duration is at least 1.0 second for every entry but the last; an
\* entry whose duration was cut below 1.0 second ends at the target exactly.
C28_OnlyLastAssignedBelowOneSecond ==
    (fn = "synchronize_with_audio" /\ regime = "compress")
        => \A i \in 1..Len(srt_entries) :
              LET e == srt_entries[i]
              IN  /\ RLt(e[2], e[3])
                  /\ e[3] = FAdd(e[2], AssignedDuration(e))
                  /\ i < Len(srt_entries) => RLe(CompressedFloor, AssignedDuration(e))
                  /\ RLt(AssignedDuration(e), CompressedFloor) => e[3] = audio_duration

C28_Witness ==
    /\ pc = "done"
    /\ fn = "synchronize_with_audio"
    /\ regime = "compress"
    /\ Len(srt_entries) >= 3
    /\ RLt(AssignedDuration(LastEntry), CompressedFloor)
    /\ \E i \in 1..(Len(srt_entries) - 1) :
          RLt(EntryDuration(srt_entries[i]), CompressedFloor)

\* C29 as stated: a call that returns fewer entries than the sentences have
\* blocks has a last entry, and that entry ends at the target exactly.
C29_DropsOnlyAtTarget ==
    (pc = "done" /\ fn = "synchronize_with_audio"
       /\ Len(srt_entries) < Len(FlatBlocks(sentences)))
        => (srt_entries # <<>> /\ LastEntry[3] = audio_duration)

\* C30 as stated: an invocation with a valid audio object and a direct text
\* that is not blank never returns the "Could not extract text" failure, the
\* text beginning with "Error" included.
C30_NonBlankTextAccepted ==
    (pc = "returned" /\ ValidAudio(audio_file) /\ ~Blank(text_input))
        => result.message # "no_text"

====
